---- MODULE Spec2Model ----
(***************************************************************************)
(* Taiwan payroll application: bracket tables, insurance and overtime      *)
(* rules (utils/taiwanLaborRules.ts and the copy of the rules that         *)
(* services/geminiService.ts carries), and the payroll computation and     *)
(* employee-list handlers of App.tsx (both App components of the file).    *)
(*                                                                         *)
(* Money is in whole NT dollars.  Overtime hours are counted in half       *)
(* hours (the unit the form offers), so otHoursWeekday = 6 stands for the  *)
(* source value 3.0.  Rates are integers in the unit named next to them.   *)
(***************************************************************************)
EXTENDS Integers, Sequences, FiniteSets, TLC

VARIABLES
    appVariant,               \* which App component of App.tsx is running
    rulesVariant,             \* which copy of taiwanLaborRules it is linked with
    employees,                \* useState<Employee[]>
    payrolls,                 \* useMemo Map<string, CalculatedPayroll>
    selectedEmployeeId,       \* useState<string | null>
    useBaseSalaryForPension,  \* useState(false), no setter
    mounted,                  \* the mount effect (initial load) has run
    call,                     \* the rules function under test and its arguments
    result,                   \* what that function returned
    googleSheetScriptUrl,     \* companySettings.googleSheetScriptUrl
    isSyncing,                \* useState(false)
    syncError,                \* useState<string | null>(null)
    lastSyncTime,             \* useState<string>('')
    inFlight,                 \* promises not yet settled, counted by kind
    messages,                 \* AIAssistant: useState<Message[]>, the roles
    isLoading                 \* AIAssistant: useState(false)

cloudVars == <<googleSheetScriptUrl, isSyncing, syncError, lastSyncTime>>

assistantVars == <<messages, isLoading>>

vars == <<appVariant, rulesVariant, employees, payrolls, selectedEmployeeId,
          useBaseSalaryForPension, mounted, call, result, cloudVars, inFlight,
          assistantVars>>

----------------------------------------------------------------------------
(* Rate constants.                                                         *)

\* 0.125, in thousandths
LABOR_INSURANCE_RATE == 125
\* 0.20, in hundredths
LABOR_EMPLOYEE_SHARE == 20
\* 0.70, in hundredths
LABOR_EMPLOYER_SHARE == 70
\* 0.0517, in ten-thousandths
HEALTH_INSURANCE_RATE == 517
\* 0.30, in hundredths
HEALTH_EMPLOYEE_SHARE == 30
\* 0.60, in hundredths
HEALTH_EMPLOYER_SHARE == 60
\* 0.58, in hundredths
AVG_DEPENDENTS_EMPLOYER == 58
\* 0.06, in hundredths
PENSION_RATE == 6

(* Bracket tables.                                                         *)

\* faulty table: two neighbouring tiers entered in the wrong order
LABOR_BRACKETS_Misordered ==
    << 11100, 12540, 13500, 15840, 16500, 17280, 17880, 20008, 19047,
       21009, 22000, 23100, 24000, 25250, 26400, 27600, 28500, 29500,
       30300, 31800, 33300, 34800, 36300, 38200, 40100, 42000, 43900, 45800 >>

LABOR_BRACKETS ==
    << 11100, 12540, 13500, 15840, 16500, 17280, 17880, 19047, 20008,
       21009, 22000, 23100, 24000, 25250, 26400, 27600, 28500, 29500,
       30300, 31800, 33300, 34800, 36300, 38200, 40100, 42000, 43900, 45800 >>

HEALTH_BRACKETS ==
    << 28590, 28800, 30300, 31800, 33300, 34800, 36300, 38200, 40100, 42000,
       43900, 45800, 48200, 50600, 53000, 55400, 57800, 60800, 63800, 66800,
       69800, 72800, 76500, 80200, 83900, 87600, 92100, 96600, 101100, 105600,
       110100, 115500, 120500, 125500, 131700, 137900, 144100, 150000, 156400,
       162800, 169200, 175600, 182000, 189500, 197000, 204500, 212000, 219500,
       228200, 236900, 245600, 254300, 263000, 273000, 283000, 293000, 303000,
       313000 >>

PENSION_BRACKETS ==
    << 1500, 3000, 4500, 6000, 7500,
       8700, 9900, 11100, 12540, 13500,
       15840, 16500, 17280, 17880, 19047,
       20008, 21009, 22000, 23100, 24000,
       25250, 26400, 27600, 28590, 29500,
       30300, 31800, 33300, 34800, 36300,
       38200, 40100, 42000, 43900, 45800,
       48200, 50600, 53000, 55400, 57800,
       60800, 63800, 66800, 69800, 72800,
       76500, 80200, 83900, 87600, 92100,
       96600, 101100, 105600, 110100, 115500,
       120900, 126300, 131700, 137100, 142500,
       147900, 150000 >>

----------------------------------------------------------------------------
(* Bracket lookup.  The three source functions have the same body: an      *)
(* early return for salary <= BRACKETS[0], a for..of scan that returns the *)
(* first bracket with salary <= bracket, and the last bracket after the    *)
(* loop.  ScanBrackets is the loop from index i on.                        *)

RECURSIVE ScanBrackets(_, _, _)
ScanBracketsStrict(brackets, salary, i) ==
    IF i > Len(brackets) THEN brackets[Len(brackets)]
    ELSE IF salary < brackets[i] THEN brackets[i]
    ELSE ScanBrackets(brackets, salary, i + 1)

ScanBrackets(brackets, salary, i) ==
    IF i > Len(brackets) THEN brackets[Len(brackets)]
    ELSE IF salary <= brackets[i] THEN brackets[i]
    ELSE ScanBrackets(brackets, salary, i + 1)

getLaborInsuredSalary(salary) ==
    IF salary <= LABOR_BRACKETS[1] THEN LABOR_BRACKETS[1]
    ELSE ScanBrackets(LABOR_BRACKETS, salary, 1)

getHealthInsuredSalary(salary) ==
    IF salary <= HEALTH_BRACKETS[1] THEN HEALTH_BRACKETS[1]
    ELSE ScanBrackets(HEALTH_BRACKETS, salary, 1)

getPensionInsuredSalary(salary) ==
    IF salary <= PENSION_BRACKETS[1] THEN PENSION_BRACKETS[1]
    ELSE ScanBrackets(PENSION_BRACKETS, salary, 1)

----------------------------------------------------------------------------
(* Math.round(insuredSalary * rate ...) on IEEE-754 doubles.               *)
(*                                                                         *)
(* rate7 is the product of the rate constants of one source expression in  *)
(* units of 10^-7.  The exact product insuredSalary * rate7 does not fit   *)
(* the integers of the model checker, so it is formed from three-digit     *)
(* limbs: M is the exact product divided by 1000 (rounded down).           *)
(* Math.round rounds half up.  The insured salary is always a bracket     *)
(* value, and for                                                          *)
(* every bracket value of the three tables and every rate product below    *)
(* the double result rounds as the exact one does, except the pairs of     *)
(* Float64BelowHalf: there the exact product ends in .5 and the double     *)
(* product lies just below it (45800 * 0.125 * 0.7 is                      *)
(* 4007.4999999999995), so Math.round returns the lower integer.           *)

Float64BelowHalf == { <<45800, 875000>> }

ExactRoundHalfUp(insuredSalary, rate7) ==
    LET th == insuredSalary \div 1000
        tl == insuredSalary % 1000
        ah == rate7 \div 1000
        al == rate7 % 1000
        M  == th * ah * 1000 + th * al + tl * ah + ((tl * al) \div 1000)
    IN  (M + 5000) \div 10000

MathRound(insuredSalary, rate7) ==
    ExactRoundHalfUp(insuredSalary, rate7)
        - (IF <<insuredSalary, rate7>> \in Float64BelowHalf THEN 1 ELSE 0)

\* insuredSalary * LABOR_INSURANCE_RATE * LABOR_EMPLOYEE_SHARE
LaborEmployeeRate7 == LABOR_INSURANCE_RATE * LABOR_EMPLOYEE_SHARE * 100
\* insuredSalary * LABOR_INSURANCE_RATE * LABOR_EMPLOYER_SHARE
LaborEmployerRate7 == LABOR_INSURANCE_RATE * LABOR_EMPLOYER_SHARE * 100
\* insuredSalary * HEALTH_INSURANCE_RATE * HEALTH_EMPLOYEE_SHARE
HealthEmployeeRate7 == HEALTH_INSURANCE_RATE * HEALTH_EMPLOYEE_SHARE * 10
\* insuredSalary * HEALTH_INSURANCE_RATE * HEALTH_EMPLOYER_SHARE * (1 + AVG_DEPENDENTS_EMPLOYER)
HealthEmployerRate7 ==
    (HEALTH_INSURANCE_RATE * HEALTH_EMPLOYER_SHARE * (100 + AVG_DEPENDENTS_EMPLOYER)) \div 10
\* insuredSalary * PENSION_RATE
PensionRate7 == PENSION_RATE * 100000

Min(a, b) == IF a <= b THEN a ELSE b
Max(a, b) == IF a >= b THEN a ELSE b

calculateLaborInsurance(salary) ==
    LET insuredSalary == getLaborInsuredSalary(salary)
    IN  MathRound(insuredSalary, LaborEmployeeRate7)

\* faulty premium: the share is multiplied first and rounded once at the end
calculateHealthInsuranceRoundLast(salary, dependents) ==
    LET insuredSalary == getHealthInsuredSalary(salary)
        chargeableCount == 1 + Min(dependents, 3)
    IN  MathRound(insuredSalary, HealthEmployeeRate7 * chargeableCount)

\* faulty premium: every dependent is charged, without the cap of 3
calculateHealthInsuranceUncapped(salary, dependents) ==
    LET insuredSalary == getHealthInsuredSalary(salary)
        singleShare == MathRound(insuredSalary, HealthEmployeeRate7)
    IN  singleShare * (1 + dependents)

\* faulty premium: the insured amount is read from the labor table
calculateHealthInsuranceLaborTier(salary, dependents) ==
    LET insuredSalary == getLaborInsuredSalary(salary)
        singleShare == MathRound(insuredSalary, HealthEmployeeRate7)
        chargeableCount == 1 + Min(dependents, 3)
    IN  singleShare * chargeableCount

calculateHealthInsurance(salary, dependents) ==
    LET insuredSalary == getHealthInsuredSalary(salary)
        singleShare == MathRound(insuredSalary, HealthEmployeeRate7)
        chargeableCount == 1 + Min(dependents, 3)
    IN  singleShare * chargeableCount

calculateLaborInsuranceEmployer(salary) ==
    LET insuredSalary == getLaborInsuredSalary(salary)
    IN  MathRound(insuredSalary, LaborEmployerRate7)

\* faulty employer premium: the average dependents factor is left out
calculateHealthInsuranceEmployerNoAverage(salary) ==
    LET insuredSalary == getHealthInsuredSalary(salary)
    IN  MathRound(insuredSalary, HEALTH_INSURANCE_RATE * HEALTH_EMPLOYER_SHARE * 10)

calculateHealthInsuranceEmployer(salary) ==
    LET insuredSalary == getHealthInsuredSalary(salary)
    IN  MathRound(insuredSalary, HealthEmployerRate7)

\* utils/taiwanLaborRules.ts: the pension tier is read from the labor table
calculatePensionUtils(salary) ==
    LET insuredSalary == getLaborInsuredSalary(salary)
    IN  MathRound(insuredSalary, PensionRate7)

\* the rules copy in services/geminiService.ts: the pension table
calculatePensionService(salaryForPension) ==
    LET insuredSalary == getPensionInsuredSalary(salaryForPension)
    IN  MathRound(insuredSalary, PensionRate7)

\* calculatePension as the App resolves it through its import
calculatePension(rules, salary) ==
    IF rules = "utils" THEN calculatePensionUtils(salary)
    ELSE calculatePensionService(salary)

----------------------------------------------------------------------------
(* Overtime.  hourlyRate = regularSalary / 240 and every product of the    *)
(* source is a multiple of regularSalary / 1440 once the hours are counted *)
(* in half hours: h half hours at 4/3 are regularSalary * 4h / 1440, at    *)
(* 5/3 regularSalary * 5h / 1440, and the flat holiday day (8 hours) is    *)
(* regularSalary * 48 / 1440.  OvertimeWeight is that multiple.            *)

WeekdayWeight(halfHours) ==
    IF halfHours > 0
    THEN LET firstTwo == Min(halfHours, 4)
             remaining == Max(0, halfHours - 4)
         IN  4 * firstTwo + 5 * remaining
    ELSE 0

\* faulty holiday pay: the hours worked are paid, not the flat day
HolidayWeightPerHour(halfHours) ==
    IF halfHours > 0
    THEN 3 * Min(halfHours, 16) + (IF halfHours > 16 THEN 4 * (halfHours - 16) ELSE 0)
    ELSE 0

\* faulty holiday pay: beyond 8 hours the excess replaces the flat day
HolidayWeightExcessOnly(halfHours) ==
    IF halfHours > 16 THEN 4 * (halfHours - 16)
    ELSE IF halfHours > 0 THEN 48 ELSE 0

HolidayWeight(halfHours) ==
    IF halfHours > 0
    THEN 48 + (IF halfHours > 16 THEN 4 * (halfHours - 16) ELSE 0)
    ELSE 0

OvertimeWeight(weekdayHours, restDayHours, holidayHours) ==
    WeekdayWeight(weekdayHours) + WeekdayWeight(restDayHours) + HolidayWeight(holidayHours)

(* Math.ceil(total) on doubles.  The factors 4/3 and 5/3 are not doubles,  *)
(* so where the exact total is a whole number the accumulated double can   *)
(* lie just above it and Math.ceil returns the next integer.  On the       *)
(* inputs of this model that happens exactly on Float64AboveWhole          *)
(* (regularSalary, weekday, rest-day, holiday half hours): for instance    *)
(* 64000 with 4 h weekday and 4 h rest day is 3200 exactly and 3201 in     *)
(* the source.                                                             *)

Float64AboveWhole ==
    { <<28000, 7, 0, 21>>, <<30000, 6, 8, 20>>, <<32000, 8, 8, 0>>,
      <<40400, 0, 2, 20>>, <<40400, 0, 8, 0>>, <<40400, 1, 1, 20>>,
      <<40400, 2, 0, 20>>, <<40400, 6, 3, 17>>, <<40400, 7, 9, 0>>,
      <<40400, 8, 0, 0>>, <<40400, 8, 8, 0>>, <<60000, 6, 8, 20>>,
      <<60000, 9, 8, 20>>, <<64000, 1, 4, 17>>, <<64000, 1, 9, 0>>,
      <<64000, 3, 6, 17>>, <<64000, 4, 1, 17>>, <<64000, 4, 8, 18>>,
      <<64000, 5, 2, 17>>, <<64000, 5, 7, 18>>, <<64000, 6, 2, 18>>,
      <<64000, 6, 3, 17>>, <<64000, 6, 6, 18>>, <<64000, 8, 4, 18>>,
      <<64000, 8, 8, 0>>, <<64000, 9, 1, 0>>, <<66000, 9, 9, 18>>,
      <<66000, 9, 9, 21>> }

calculateOvertimePay(regularSalary, weekdayHours, restDayHours, holidayHours) ==
    LET total1440 == regularSalary * OvertimeWeight(weekdayHours, restDayHours, holidayHours)
    IN  ((total1440 + 1439) \div 1440)
          + (IF <<regularSalary, weekdayHours, restDayHours, holidayHours>>
                    \in Float64AboveWhole THEN 1 ELSE 0)

----------------------------------------------------------------------------
(* The payroll computation of App.tsx (the body of employees.forEach in    *)
(* the payrolls useMemo), one operator per local of the source.            *)

RECURSIVE SumAmounts(_)
\* items.reduce((s, c) => s + c.amount, 0)
SumAmounts(items) ==
    IF items = << >> THEN 0 ELSE Head(items).amount + SumAmounts(Tail(items))

regularSalary(emp) ==
    emp.baseSalary + emp.mealAllowance + emp.fuelAllowance + emp.attendanceBonus

fixedMonthlyTotal(emp) == regularSalary(emp) + SumAmounts(emp.customAllowances)

grossSalary(fixedTotal, overtime) == fixedTotal + overtime

\* faulty basis: the custom allowances are left out of the insured amount
insuranceBasisSalaryRegularOnly(emp) ==
    IF emp.useBaseSalaryForInsurance THEN emp.baseSalary ELSE regularSalary(emp)

\* faulty basis: the month's gross salary, overtime pay included, is insured
insuranceBasisSalaryWithOvertime(emp) ==
    IF emp.useBaseSalaryForInsurance THEN emp.baseSalary
    ELSE fixedMonthlyTotal(emp)
           + calculateOvertimePay(regularSalary(emp), emp.otHoursWeekday,
                                  emp.otHoursRestDay, emp.otHoursHoliday)

insuranceBasisSalary(emp) ==
    IF emp.useBaseSalaryForInsurance THEN emp.baseSalary ELSE fixedMonthlyTotal(emp)

\* faulty pension basis: the App-level toggle alone decides, the record's flag is ignored
pensionBasisSalaryOwnToggle(app, pensionFlag, emp) ==
    IF pensionFlag THEN emp.baseSalary ELSE fixedMonthlyTotal(emp)

\* primary App: (useBaseSalaryForPension || emp.useBaseSalaryForInsurance) ? base : fixed;
\* legacy App: calculatePension is called with insuranceBasisSalary
pensionBasisSalary(app, pensionFlag, emp) ==
    IF app = "primary"
    THEN IF pensionFlag \/ emp.useBaseSalaryForInsurance
         THEN emp.baseSalary ELSE fixedMonthlyTotal(emp)
    ELSE insuranceBasisSalary(emp)

\* faulty deductions: only the two statutory premiums are withheld
totalDeductionsStatutoryOnly(laborEmp, healthEmp, customDeductions) ==
    laborEmp + healthEmp

totalDeductions(laborEmp, healthEmp, customDeductions) ==
    laborEmp + healthEmp + customDeductions

netPay(gross, deductions) == gross - deductions

\* primary App: netPay + laborCo + healthCo + pension;
\* legacy App: grossSalary + laborCo + healthCo + pension
totalCompanyCost(app, gross, net, laborCo, healthCo, pension) ==
    IF app = "primary"
    THEN net + laborCo + healthCo + pension
    ELSE gross + laborCo + healthCo + pension

\* The object both App components store with map.set(emp.id, {...}); the
\* primary App adds insuredSalaryPension, for which the legacy App's object
\* literal has no property.
CalculatedPayroll(app, rules, pensionFlag, emp) ==
    LET regular  == regularSalary(emp)
        overtime == calculateOvertimePay(regular, emp.otHoursWeekday,
                                         emp.otHoursRestDay, emp.otHoursHoliday)
        fixed    == fixedMonthlyTotal(emp)
        gross    == grossSalary(fixed, overtime)
        basis    == insuranceBasisSalary(emp)
        pbasis   == pensionBasisSalary(app, pensionFlag, emp)
        laborEmp == calculateLaborInsurance(basis)
        healthEmp == calculateHealthInsurance(basis, emp.dependents)
        customDeductions == SumAmounts(emp.customDeductions)
        deductions == totalDeductions(laborEmp, healthEmp, customDeductions)
        laborCo  == calculateLaborInsuranceEmployer(basis)
        healthCo == calculateHealthInsuranceEmployer(basis)
        pension  == calculatePension(rules, pbasis)
        net      == netPay(gross, deductions)
        common   ==
          [ employeeId            |-> emp.id,
            insuredSalary         |-> getLaborInsuredSalary(basis),
            insuredSalaryHealth   |-> getHealthInsuredSalary(basis),
            laborInsuranceEmp     |-> laborEmp,
            healthInsuranceEmp    |-> healthEmp,
            totalCustomDeductions |-> customDeductions,
            laborInsuranceCo      |-> laborCo,
            healthInsuranceCo     |-> healthCo,
            pensionCompany        |-> pension,
            overtimePay           |-> overtime,
            grossSalary           |-> gross,
            totalDeductions       |-> deductions,
            netPay                |-> net,
            totalCompanyCost      |->
                totalCompanyCost(app, gross, net, laborCo, healthCo, pension) ]
    IN  IF app = "primary"
        THEN common @@ [ insuredSalaryPension |-> getPensionInsuredSalary(pbasis) ]
        ELSE common

\* ids of the list, and the last record carrying an id (Map.set overwrites)
EmployeeIds(emps) == { emps[i].id : i \in 1..Len(emps) }

LastWithId(emps, id) ==
    emps[CHOOSE i \in 1..Len(emps) :
            /\ emps[i].id = id
            /\ \A j \in 1..Len(emps) : emps[j].id = id => j <= i]

\* the payrolls useMemo: a Map from employee id to CalculatedPayroll
ComputePayrolls(app, rules, pensionFlag, emps) ==
    [ id \in EmployeeIds(emps) |->
        CalculatedPayroll(app, rules, pensionFlag, LastWithId(emps, id)) ]

----------------------------------------------------------------------------
(* The application state.                                                  *)

\* App.tsx: const initialEmployees (3 hours of weekday overtime)
initialEmployees ==
    << [ id |-> "1",
         baseSalary |-> 60000, mealAllowance |-> 3000,
         fuelAllowance |-> 1000, attendanceBonus |-> 2000,
         useBaseSalaryForInsurance |-> FALSE,
         otHoursWeekday |-> 6, otHoursRestDay |-> 0, otHoursHoliday |-> 0,
         dependents |-> 0,
         customAllowances |-> << [name |-> "bonus", amount |-> 5000] >>,
         customDeductions |-> << >> ] >>

\* The running build.  The primary App (the first component of App.tsx) imports
\* getPensionInsuredSalary and PENSION_BRACKETS, which only the rules copy in
\* services/geminiService.ts exports; the legacy App (the second component)
\* imports names both copies export.
Builds ==
    { <<"primary", "service">>, <<"legacy", "utils">>, <<"legacy", "service">> }

NoSelection == "null"

\* no rules function has been called
NoCall == [fn |-> "none", salary |-> 0, dependents |-> 0]

\* A script URL, as far as validateUrl reads it: the host it names and how it
\* ends.  The settings start with the empty string.
EmptyUrl == [host |-> "", ending |-> ""]

validateUrlAnyEnding(url) ==
    /\ url # EmptyUrl
    /\ url.host = "script.google.com"

validateUrl(url) ==
    /\ url # EmptyUrl
    /\ url.host = "script.google.com"
    /\ url.ending = "/exec"

\* syncError: null, or one of the three messages the App sets
NoError == "null"
UrlError == "url"
LoadError == "load"
SaveError == "save"

\* lastSyncTime: '' until a sync succeeded, then a clock reading
NeverSynced == ""
ClockReading == "toLocaleTimeString"

\* Promises awaiting their response: uploads, loads, loads during which the
\* list was edited locally (the same promise as a load; the count only
\* remembers that handleSaveEmployee or handleDelete ran meanwhile), and
\* questions put to the assistant.
MaxInFlight == 2

NothingInFlight == [save |-> 0, load |-> 0, overtaken |-> 0, ask |-> 0]

InFlightCount(flight) == flight.save + flight.load + flight.overtaken + flight.ask

LocalEdit(flight) ==
    [flight EXCEPT !.load = 0, !.overtaken = @ + flight.load]

ConstructorState ==
    /\ employees = initialEmployees
    /\ useBaseSalaryForPension = FALSE
    /\ selectedEmployeeId = NoSelection
    /\ googleSheetScriptUrl = EmptyUrl
    /\ isSyncing = FALSE
    /\ syncError = NoError
    /\ lastSyncTime = NeverSynced

AppInit ==
    /\ \E build \in Builds :
          /\ appVariant = build[1]
          /\ rulesVariant = build[2]
    /\ ConstructorState
    /\ payrolls = ComputePayrolls(appVariant, rulesVariant, useBaseSalaryForPension,
                                  employees)
    /\ mounted = FALSE
    /\ inFlight = NothingInFlight
    /\ messages = << "ai" >>
    /\ isLoading = FALSE

\* the memo that leaves the map as it was when the list changes
RerenderStale(newEmployees) ==
    /\ employees' = newEmployees
    /\ UNCHANGED <<payrolls, appVariant, rulesVariant, useBaseSalaryForPension>>

\* what a re-render leaves alone: the build and the setter-less pension flag
Rerender(newEmployees) ==
    /\ employees' = newEmployees
    /\ payrolls' = ComputePayrolls(appVariant, rulesVariant, useBaseSalaryForPension,
                                   newEmployees)
    /\ UNCHANGED <<appVariant, rulesVariant, useBaseSalaryForPension>>

\* setIsSyncing(true); setSyncError(null); await fetch(...)
StartFetch(kind, flight) ==
    /\ InFlightCount(flight) < MaxInFlight
    /\ isSyncing' = TRUE
    /\ syncError' = NoError
    /\ inFlight' = [flight EXCEPT ![kind] = @ + 1]
    /\ UNCHANGED lastSyncTime

\* the part of syncFromCloud and syncToCloud that runs before the first await;
\* only the primary App validates the URL
BeginSync(kind, url, flight) ==
    IF url = EmptyUrl
    THEN /\ inFlight' = flight
         /\ UNCHANGED <<isSyncing, syncError, lastSyncTime>>
    ELSE IF appVariant = "primary" /\ ~validateUrl(url)
    THEN /\ syncError' = UrlError
         /\ inFlight' = flight
         /\ UNCHANGED <<isSyncing, lastSyncTime>>
    ELSE StartFetch(kind, flight)

syncFromCloud(url, flight) == BeginSync("load", url, flight)

syncToCloud(url, flight) == BeginSync("save", url, flight)

\* useEffect(..., [companySettings.googleSheetScriptUrl]): the legacy App loads
\* from the cloud whenever the URL becomes a new non-empty value; the primary
\* App's effect has an empty body
AutoSync(url, flight) ==
    IF appVariant = "legacy" /\ url # googleSheetScriptUrl /\ url # EmptyUrl
    THEN syncFromCloud(url, flight)
    ELSE /\ inFlight' = flight
         /\ UNCHANGED <<isSyncing, syncError, lastSyncTime>>

\* useEffect(..., []): setCompanySettings and setEmployees from localStorage
InitialLoad(savedUrl, savedEmployees) ==
    /\ ~mounted
    /\ mounted' = TRUE
    /\ Rerender(savedEmployees)
    /\ googleSheetScriptUrl' = savedUrl
    /\ AutoSync(savedUrl, inFlight)
    /\ UNCHANGED <<selectedEmployeeId, call, result, assistantVars>>

\* the same effect when localStorage holds neither key
InitialLoadNothing ==
    /\ ~mounted
    /\ mounted' = TRUE
    /\ UNCHANGED <<appVariant, rulesVariant, employees, payrolls, selectedEmployeeId,
                   useBaseSalaryForPension, call, result, cloudVars, inFlight,
                   assistantVars>>

\* the saved record appended even when its id is already in the list
SaveAlwaysAppends(list, emp) == Append(list, emp)

SaveInto(list, emp) ==
    IF \E i \in 1..Len(list) : list[i].id = emp.id
    THEN [ i \in 1..Len(list) |-> IF list[i].id = emp.id THEN emp ELSE list[i] ]
    ELSE Append(list, emp)

handleSaveEmployee(emp) ==
    /\ mounted
    /\ Rerender(SaveInto(employees, emp))
    /\ selectedEmployeeId' = emp.id
    /\ syncToCloud(googleSheetScriptUrl, LocalEdit(inFlight))
    /\ UNCHANGED <<mounted, call, result, googleSheetScriptUrl, assistantVars>>

\* the delete that drops only the first record with the id
DeleteFirstOnly(list, id) ==
    LET hits == { i \in 1..Len(list) : list[i].id = id }
        first == CHOOSE i \in hits : \A j \in hits : i <= j
    IN  IF hits = {} THEN list
        ELSE [ i \in 1..(Len(list) - 1) |-> IF i < first THEN list[i] ELSE list[i + 1] ]

DeleteFrom(list, id) == SelectSeq(list, LAMBDA e : e.id # id)

handleDelete(id) ==
    /\ mounted
    /\ Rerender(DeleteFrom(employees, id))
    /\ selectedEmployeeId' =
           IF selectedEmployeeId = id THEN NoSelection ELSE selectedEmployeeId
    /\ syncToCloud(googleSheetScriptUrl, LocalEdit(inFlight))
    /\ UNCHANGED <<mounted, call, result, googleSheetScriptUrl, assistantVars>>

\* the URL field of the settings panel
handleSettingsChange(url) ==
    /\ mounted
    /\ googleSheetScriptUrl' = url
    /\ AutoSync(url, inFlight)
    /\ UNCHANGED <<appVariant, rulesVariant, employees, payrolls, selectedEmployeeId,
                   useBaseSalaryForPension, mounted, call, result, assistantVars>>

\* the load buttons, shown once a URL is set and disabled while isSyncing
ClickLoad ==
    /\ mounted
    /\ googleSheetScriptUrl # EmptyUrl
    /\ ~isSyncing
    /\ syncFromCloud(googleSheetScriptUrl, inFlight)
    /\ UNCHANGED <<appVariant, rulesVariant, employees, payrolls, selectedEmployeeId,
                   useBaseSalaryForPension, mounted, call, result,
                   googleSheetScriptUrl, assistantVars>>

\* What the script URL answers.  fetch rejects, or resolves with response.ok
\* or not; the body parses as JSON or does not; the parsed object carries a
\* status and an employees field that is missing, an array, or some other
\* truthy value.
NoEmployeesField == [type |-> "undefined", items |-> << >>]

NotAnArray == [type |-> "object", items |-> << >>]

ArrayOf(list) == [type |-> "array", items |-> list]

Response(fetch, ok, body, status, employeesField) ==
    [fetch |-> fetch, ok |-> ok, body |-> body, status |-> status,
     employees |-> employeesField]

FailedResponses ==
    { Response("rejected", FALSE, "none", "none", NoEmployeesField),
      Response("resolved", FALSE, "json", "success", NoEmployeesField),
      Response("resolved", TRUE, "unparsable", "none", NoEmployeesField),
      Response("resolved", TRUE, "json", "error", NoEmployeesField) }

\* the parsed body when fetch resolved and response.json() did not throw
Parsed(response) == response.fetch = "resolved" /\ response.body = "json"

\* syncFromCloud reaches its catch block
LoadThrows(response) ==
    \/ ~Parsed(response)
    \/ ~response.ok
    \/ response.status # "success"

\* syncToCloud reaches its catch block; it does not look at response.ok
SaveThrows(response) ==
    \/ ~Parsed(response)
    \/ response.status # "success"

\* finally { setIsSyncing(false) }
Settle(kind) ==
    /\ isSyncing' = FALSE
    /\ inFlight' = [inFlight EXCEPT ![kind] = @ - 1]

\* Rendering a list that is not an array throws in the payrolls memo
\* (employees.forEach is not a function); no error boundary is mounted, so
\* React removes the whole tree.  The page then shows nothing until it is
\* loaded again, which starts from the constructor state; pending promises
\* settle into an unmounted component.
RenderThrows ==
    /\ mounted' = FALSE
    /\ Rerender(initialEmployees)
    /\ selectedEmployeeId' = NoSelection
    /\ googleSheetScriptUrl' = EmptyUrl
    /\ isSyncing' = FALSE
    /\ syncError' = NoError
    /\ lastSyncTime' = NeverSynced
    /\ inFlight' = NothingInFlight
    /\ messages' = << "ai" >>
    /\ isLoading' = FALSE
    /\ UNCHANGED <<call, result>>

\* the primary App replaces the list only by an array
setEmployeesPrimary(field) ==
    IF field.type = "array"
    THEN Rerender(field.items) /\ lastSyncTime' = ClockReading
    ELSE UNCHANGED <<appVariant, rulesVariant, employees, payrolls,
                     useBaseSalaryForPension, lastSyncTime>>

\* syncFromCloud after its await, on the response the script URL gave
CompleteLoad(kind, response) ==
    /\ mounted
    /\ inFlight[kind] > 0
    /\ IF LoadThrows(response)
       THEN /\ syncError' = LoadError
            /\ Settle(kind)
            /\ UNCHANGED <<appVariant, rulesVariant, employees, payrolls,
                           useBaseSalaryForPension, lastSyncTime>>
            /\ UNCHANGED <<selectedEmployeeId, mounted, call, result,
                           googleSheetScriptUrl, assistantVars>>
       ELSE IF appVariant = "legacy" /\ response.employees.type = "object"
       THEN RenderThrows
       ELSE /\ IF appVariant = "primary"
               THEN setEmployeesPrimary(response.employees)
               ELSE /\ lastSyncTime' = ClockReading
                    /\ IF response.employees.type = "array"
                       THEN Rerender(response.employees.items)
                       ELSE UNCHANGED <<appVariant, rulesVariant, employees,
                                        payrolls, useBaseSalaryForPension>>
            /\ Settle(kind)
            /\ UNCHANGED <<selectedEmployeeId, mounted, call, result,
                           googleSheetScriptUrl, syncError, assistantVars>>

\* the upload that takes the list from the script's reply
CompleteSaveAdoptsReply(response) ==
    /\ mounted
    /\ inFlight.save > 0
    /\ IF SaveThrows(response)
       THEN syncError' = SaveError /\ UNCHANGED lastSyncTime
       ELSE lastSyncTime' = ClockReading /\ UNCHANGED syncError
    /\ Settle("save")
    /\ Rerender(response.employees.items)
    /\ UNCHANGED <<selectedEmployeeId, mounted, call, result,
                   googleSheetScriptUrl, assistantVars>>

\* syncToCloud after its await
CompleteSave(response) ==
    /\ mounted
    /\ inFlight.save > 0
    /\ IF SaveThrows(response)
       THEN syncError' = SaveError /\ UNCHANGED lastSyncTime
       ELSE lastSyncTime' = ClockReading /\ UNCHANGED syncError
    /\ Settle("save")
    /\ UNCHANGED <<appVariant, rulesVariant, employees, payrolls, selectedEmployeeId,
                   useBaseSalaryForPension, mounted, call, result,
                   googleSheetScriptUrl, assistantVars>>

\* AIAssistant: the chat is a list of messages, here their roles; an answer is
\* the model's text, or the string askPayrollAssistant returns without an API
\* key or from its catch block.
MaxMessages == 3

AssistantAnswers == { "ai", "ai-no-key", "ai-error" }

\* handleSend up to its await; the Enter key reaches it while isLoading too
handleSend ==
    /\ mounted
    /\ Len(messages) < MaxMessages
    /\ InFlightCount(inFlight) < MaxInFlight
    /\ messages' = Append(messages, "user")
    /\ isLoading' = TRUE
    /\ inFlight' = [inFlight EXCEPT !.ask = @ + 1]
    /\ UNCHANGED <<appVariant, rulesVariant, employees, payrolls, selectedEmployeeId,
                   useBaseSalaryForPension, mounted, call, result, cloudVars>>

\* handleSend after askPayrollAssistant resolved; it never rejects and reads
\* currentEmployee and payrollData without writing to them
AssistantAnswer(answer) ==
    /\ mounted
    /\ inFlight.ask > 0
    /\ messages' = Append(messages, answer)
    /\ isLoading' = FALSE
    /\ inFlight' = [inFlight EXCEPT !.ask = @ - 1]
    /\ UNCHANGED <<appVariant, rulesVariant, employees, payrolls, selectedEmployeeId,
                   useBaseSalaryForPension, mounted, call, result, cloudVars>>

----------------------------------------------------------------------------
(* Spec: the App with its list of employees, the script URL and the cloud  *)
(* load and upload.  Records come from the form, lists from localStorage   *)
(* and from the script URL.  SpecAssistant: the App with the list, the     *)
(* upload and the assistant's chat.                                        *)

OfficeWorker == initialEmployees[1]

\* the same employee after the form switched the insurance basis
OfficeWorkerEdited == [OfficeWorker EXCEPT !.useBaseSalaryForInsurance = TRUE]

\* a new employee on a small monthly wage with three dependents
PartTimer ==
    [ id |-> "2", baseSalary |-> 1000, mealAllowance |-> 0, fuelAllowance |-> 0,
      attendanceBonus |-> 0, useBaseSalaryForInsurance |-> FALSE,
      otHoursWeekday |-> 0, otHoursRestDay |-> 0, otHoursHoliday |-> 0,
      dependents |-> 3, customAllowances |-> << >>, customDeductions |-> << >> ]

FormRecords == { OfficeWorkerEdited, PartTimer }

SavedLists == { << OfficeWorkerEdited, PartTimer >> }

\* the rows of the sheet are whatever its editors left there
CloudLists ==
    { << >>, << PartTimer, OfficeWorker >>, << OfficeWorker, OfficeWorkerEdited >> }

Urls ==
    { EmptyUrl,
      [host |-> "script.google.com", ending |-> "/dev"],
      [host |-> "script.google.com", ending |-> "/exec"] }

LoadResponses ==
    FailedResponses
      \cup { Response("resolved", TRUE, "json", "success", field) :
                field \in {NoEmployeesField, NotAnArray}
                            \cup { ArrayOf(list) : list \in CloudLists } }

SaveResponses ==
    FailedResponses
      \cup { Response("resolved", TRUE, "json", "success", NoEmployeesField) }

Mount ==
    \E url \in Urls, list \in SavedLists : InitialLoad(url, list)

SubmitForm ==
    \E emp \in FormRecords : handleSaveEmployee(emp)

ConfirmDelete ==
    \E i \in 1..Len(employees) : handleDelete(employees[i].id)

EditUrl ==
    \E url \in Urls : handleSettingsChange(url)

LoadArrives ==
    \E kind \in {"load", "overtaken"}, response \in LoadResponses :
        CompleteLoad(kind, response)

SaveArrives ==
    \E response \in SaveResponses : CompleteSave(response)

AnswerArrives ==
    \E answer \in AssistantAnswers : AssistantAnswer(answer)

Init ==
    /\ AppInit
    /\ call = NoCall
    /\ result = 0

Next ==
    \/ Mount
    \/ InitialLoadNothing
    \/ SubmitForm
    \/ ConfirmDelete
    \/ EditUrl
    \/ ClickLoad
    \/ LoadArrives
    \/ SaveArrives

Spec == Init /\ [][Next]_vars

AssistantNext ==
    \/ Mount
    \/ SubmitForm
    \/ ConfirmDelete
    \/ SaveArrives
    \/ handleSend
    \/ AnswerArrives

SpecAssistant == Init /\ [][AssistantNext]_vars

----------------------------------------------------------------------------
(* SpecPayroll: the App with one employee.  The record comes from          *)
(* localStorage, any record over the values below, and is then edited in   *)
(* the form and saved.                                                     *)

MaxDependents == 3

BaseSalaries == {28000, 60000}
MealAllowances == {3000}
FuelAllowances == {0, 1000}
AttendanceBonuses == {0, 2000}
WeekdayHalfHours == {0, 6, 8}
RestDayHalfHours == {0, 8}
HolidayHalfHours == {0, 20}
AllowanceLists == { << >>, << [name |-> "bonus", amount |-> 5000] >> }
DeductionLists == { << >>, << [name |-> "loan", amount |-> 1500] >> }

StoredEmployees ==
    [ id : {"1"},
      baseSalary : BaseSalaries, mealAllowance : MealAllowances,
      fuelAllowance : FuelAllowances, attendanceBonus : AttendanceBonuses,
      useBaseSalaryForInsurance : BOOLEAN,
      otHoursWeekday : WeekdayHalfHours, otHoursRestDay : RestDayHalfHours,
      otHoursHoliday : HolidayHalfHours,
      dependents : 0..MaxDependents,
      customAllowances : AllowanceLists, customDeductions : DeductionLists ]

\* EmployeeForm handleSubmit: the record under edit with one input changed
FormEdits(emp) ==
    { [emp EXCEPT !.useBaseSalaryForInsurance = v] : v \in BOOLEAN }
      \cup { [emp EXCEPT !.customAllowances = v] : v \in AllowanceLists }

SubmitEdit ==
    \E i \in 1..Len(employees) :
        \E emp \in FormEdits(employees[i]) : handleSaveEmployee(emp)

LoadStored ==
    \E emp \in StoredEmployees : InitialLoad(EmptyUrl, << emp >>)

PayrollInit ==
    /\ AppInit
    /\ call = NoCall
    /\ result = 0

PayrollNext ==
    \/ LoadStored
    \/ InitialLoadNothing
    \/ SubmitEdit

SpecPayroll == PayrollInit /\ [][PayrollNext]_vars

----------------------------------------------------------------------------
(* SpecOvertime: calculateOvertimePay called on its own, on every          *)
(* regular salary of OvertimeSalaries and every triple of half-hour totals *)
(* up to the three bounds.  The two copies of the function (utils and      *)
(* services) are the same statements in the same order.                    *)

MaxWeekdayHalfHours == 8
MaxRestDayHalfHours == 8
MaxHolidayHalfHours == 20

OvertimeSalaries == {0, 40400, 64000, 66000}

OvertimeInit ==
    /\ AppInit
    /\ \E regular \in OvertimeSalaries :
         \E weekdayHours \in 0..MaxWeekdayHalfHours :
           \E restDayHours \in 0..MaxRestDayHalfHours :
             \E holidayHours \in 0..MaxHolidayHalfHours :
               call = [fn |-> "none", salary |-> regular, dependents |-> 0,
                       weekdayHours |-> weekdayHours, restDayHours |-> restDayHours,
                       holidayHours |-> holidayHours]
    /\ result = 0

CallCalculateOvertimePay ==
    /\ call.fn = "none"
    /\ call' = [call EXCEPT !.fn = "calculateOvertimePay"]
    /\ result' = calculateOvertimePay(call.salary, call.weekdayHours,
                                      call.restDayHours, call.holidayHours)
    /\ UNCHANGED <<appVariant, rulesVariant, employees, payrolls, selectedEmployeeId,
                   useBaseSalaryForPension, mounted, cloudVars, inFlight,
                   assistantVars>>

(* EmployeeForm's DetailedBreakdown: the same hourly rate and the same      *)
(* category sums as calculateOvertimePay, added into subtotal, and the      *)
(* last line shows Math.round(subtotal).  On the inputs of this model the   *)
(* double subtotal rounds as the exact one, regularSalary x weight / 1440.  *)
DetailedBreakdown(regular, weekdayHours, restDayHours, holidayHours) ==
    LET subtotal1440 == regular * OvertimeWeight(weekdayHours, restDayHours,
                                                  holidayHours)
    IN  (2 * subtotal1440 + 1440) \div 2880

\* the form renders the breakdown for the hours entered
RenderDetailedBreakdown ==
    /\ call.fn = "none"
    /\ call' = [call EXCEPT !.fn = "DetailedBreakdown"]
    /\ result' = DetailedBreakdown(call.salary, call.weekdayHours,
                                   call.restDayHours, call.holidayHours)
    /\ UNCHANGED <<appVariant, rulesVariant, employees, payrolls, selectedEmployeeId,
                   useBaseSalaryForPension, mounted, cloudVars, inFlight,
                   assistantVars>>

OvertimeNext ==
    \/ CallCalculateOvertimePay
    \/ RenderDetailedBreakdown

SpecOvertime == OvertimeInit /\ [][OvertimeNext]_vars

----------------------------------------------------------------------------
(* SpecRules: one rules function called on its own; the salary is drawn    *)
(* from every bracket value, its two neighbours, and a grid of salaries up *)
(* to MaxSalary.                                                           *)

MaxSalary == 320000
SalaryStep == 1000

BracketValues(brackets) == { brackets[i] : i \in 1..Len(brackets) }

SalaryPoints ==
    { b + d : b \in BracketValues(LABOR_BRACKETS) \cup BracketValues(HEALTH_BRACKETS)
                      \cup BracketValues(PENSION_BRACKETS),
              d \in {-1, 0, 1} }
      \cup { k * SalaryStep : k \in 0..(MaxSalary \div SalaryStep) }

\* the function fn is applied to the arguments drawn at the start
Returns(fn, value) ==
    /\ call.fn = "none"
    /\ call' = [call EXCEPT !.fn = fn]
    /\ result' = value
    /\ UNCHANGED <<appVariant, rulesVariant, employees, payrolls, selectedEmployeeId,
                   useBaseSalaryForPension, mounted, cloudVars, inFlight,
                   assistantVars>>

CallGetLaborInsuredSalary ==
    Returns("getLaborInsuredSalary", getLaborInsuredSalary(call.salary))

CallGetHealthInsuredSalary ==
    Returns("getHealthInsuredSalary", getHealthInsuredSalary(call.salary))

\* only the rules copy in services/geminiService.ts has this function
CallGetPensionInsuredSalary ==
    /\ rulesVariant = "service"
    /\ Returns("getPensionInsuredSalary", getPensionInsuredSalary(call.salary))

CallCalculatePension ==
    Returns("calculatePension", calculatePension(rulesVariant, call.salary))

CallCalculateLaborInsurance ==
    Returns("calculateLaborInsurance", calculateLaborInsurance(call.salary))

CallCalculateLaborInsuranceEmployer ==
    Returns("calculateLaborInsuranceEmployer",
            calculateLaborInsuranceEmployer(call.salary))

\* the dependents select offers 0..5; a stored record can hold any count
DependentCounts == 0..MaxDependents \cup {99}

CallCalculateHealthInsurance ==
    \E dependents \in DependentCounts :
        /\ call.fn = "none"
        /\ call' = [call EXCEPT !.fn = "calculateHealthInsurance",
                                !.dependents = dependents]
        /\ result' = calculateHealthInsurance(call.salary, dependents)
        /\ UNCHANGED <<appVariant, rulesVariant, employees, payrolls,
                       selectedEmployeeId, useBaseSalaryForPension, mounted,
                       cloudVars, inFlight, assistantVars>>

CallCalculateHealthInsuranceEmployer ==
    Returns("calculateHealthInsuranceEmployer",
            calculateHealthInsuranceEmployer(call.salary))

RulesInit ==
    /\ AppInit
    /\ \E salary \in SalaryPoints :
          call = [fn |-> "none", salary |-> salary, dependents |-> 0]
    /\ result = 0

RulesNext ==
    \/ CallGetLaborInsuredSalary
    \/ CallGetHealthInsuredSalary
    \/ CallGetPensionInsuredSalary
    \/ CallCalculatePension
    \/ CallCalculateLaborInsurance
    \/ CallCalculateLaborInsuranceEmployer
    \/ CallCalculateHealthInsurance
    \/ CallCalculateHealthInsuranceEmployer

SpecRules == RulesInit /\ [][RulesNext]_vars

----------------------------------------------------------------------------
(* Claims.                                                                 *)

\* the smallest bracket value that is >= salary; the last one when there is none
LookupTier(brackets, salary) ==
    LET tiers == BracketValues(brackets)
        above == { t \in tiers : t >= salary }
    IN  IF above = {} THEN brackets[Len(brackets)]
        ELSE CHOOSE t \in above : \A u \in above : t <= u

TableOf(fn) ==
    CASE fn = "getLaborInsuredSalary" -> LABOR_BRACKETS
      [] fn = "getHealthInsuredSalary" -> HEALTH_BRACKETS
      [] fn = "getPensionInsuredSalary" -> PENSION_BRACKETS

LookupFunctions ==
    {"getLaborInsuredSalary", "getHealthInsuredSalary", "getPensionInsuredSalary"}

\* C1: each of the three lookups returns the smallest tier of its table that is
\* >= the salary (the first tier for a salary at or below it) and the last tier
\* when the salary exceeds every tier.
C1_LookupReturnsSmallestTierAbove ==
    call.fn \in LookupFunctions =>
        /\ result = LookupTier(TableOf(call.fn), call.salary)
        /\ call.salary <= TableOf(call.fn)[1] => result = TableOf(call.fn)[1]
        /\ call.salary > TableOf(call.fn)[Len(TableOf(call.fn))] =>
               result = TableOf(call.fn)[Len(TableOf(call.fn))]

\* a salary equal to an inner tier of the health table has been looked up
C1_Witness ==
    /\ call.fn = "getHealthInsuredSalary"
    /\ call.salary = 66800
    /\ result = 66800

\* the integer nearest to num / den, halves up
IsRoundOf(value, num, den) ==
    /\ 2 * den * value <= 2 * num + den
    /\ 2 * num + den < 2 * den * (value + 1)

\* C2: the employer pension contribution is round(lookupTier(pensionTable, salary)
\* x 0.06), the tier being read from the pension table for every salary.
C2_PensionUsesPensionTable ==
    call.fn = "calculatePension" =>
        IsRoundOf(result, LookupTier(PENSION_BRACKETS, call.salary) * PENSION_RATE, 100)

\* the employee records of the list and the payroll the App holds for each
EmployeeIndexes == 1..Len(employees)

PayrollOf(emp) == payrolls[emp.id]

\* C3: for every computed payroll, totalCompanyCost = netPay + laborInsuranceCo
\* + healthInsuranceCo + pensionCompany, in every payroll computation of the
\* application.
C3_TotalCostIdentity ==
    \A id \in DOMAIN payrolls :
        payrolls[id].totalCompanyCost =
            payrolls[id].netPay + payrolls[id].laborInsuranceCo
              + payrolls[id].healthInsuranceCo + payrolls[id].pensionCompany

\* C4: for every computed payroll, netPay = grossSalary - totalDeductions and
\* totalDeductions = laborInsuranceEmp + healthInsuranceEmp + the sum of the
\* record's custom deduction amounts.
C4_NetPayIdentity ==
    \A i \in EmployeeIndexes :
        LET p == PayrollOf(employees[i])
        IN  /\ p.netPay = p.grossSalary - p.totalDeductions
            /\ p.totalDeductions =
                   p.laborInsuranceEmp + p.healthInsuranceEmp
                     + SumAmounts(employees[i].customDeductions)

\* a saved record with a custom deduction has been settled
C4_Witness ==
    /\ mounted
    /\ selectedEmployeeId = "1"
    /\ \E i \in EmployeeIndexes :
          /\ employees[i].customDeductions # << >>
          /\ PayrollOf(employees[i]).totalCustomDeductions = 1500
          /\ PayrollOf(employees[i]).netPay < PayrollOf(employees[i]).grossSalary - 1500

\* the record of the full-aggregate scenario
IsAggregateScenario(emp) ==
    /\ emp.baseSalary = 60000
    /\ emp.mealAllowance = 3000
    /\ emp.fuelAllowance = 1000
    /\ emp.attendanceBonus = 2000
    /\ ~emp.useBaseSalaryForInsurance
    /\ emp.otHoursWeekday = 6
    /\ emp.otHoursRestDay = 0
    /\ emp.otHoursHoliday = 0
    /\ Len(emp.customAllowances) = 1
    /\ emp.customAllowances[1].amount = 5000
    /\ emp.customDeductions = << >>
    /\ emp.dependents = 0

\* C5: the full-aggregate scenario record yields grossSalary 72192, insurance
\* basis 66000, employee labor insurance 1145, employee health insurance 1037,
\* totalDeductions 2182 and netPay 70010.
C5_AggregateScenario ==
    \A i \in EmployeeIndexes :
        IsAggregateScenario(employees[i]) =>
            LET p == PayrollOf(employees[i])
            IN  /\ p.grossSalary = 72192
                /\ insuranceBasisSalary(employees[i]) = 66000
                /\ p.laborInsuranceEmp = 1145
                /\ p.healthInsuranceEmp = 1037
                /\ p.totalDeductions = 2182
                /\ p.netPay = 70010

\* baseSalary + mealAllowance + fuelAllowance + attendanceBonus
FourFixedComponents(emp) ==
    emp.baseSalary + emp.mealAllowance + emp.fuelAllowance + emp.attendanceBonus

\* C6: with useBaseSalaryForInsurance false the insurance basis is the sum of the
\* four fixed components, with it true the base salary, for every record,
\* records with custom allowances included.
C6_BasisIsFourFixedComponents ==
    \A i \in EmployeeIndexes :
        LET emp == employees[i]
            basis == IF emp.useBaseSalaryForInsurance THEN emp.baseSalary
                     ELSE FourFixedComponents(emp)
        IN  /\ insuranceBasisSalary(emp) = basis
            /\ PayrollOf(emp).insuredSalary = getLaborInsuredSalary(basis)
            /\ PayrollOf(emp).insuredSalaryHealth = getHealthInsuredSalary(basis)

InsuranceFields(p) ==
    << p.insuredSalary, p.insuredSalaryHealth,
       IF "insuredSalaryPension" \in DOMAIN p THEN p.insuredSalaryPension ELSE 0,
       p.laborInsuranceEmp, p.healthInsuranceEmp,
       p.laborInsuranceCo, p.healthInsuranceCo, p.pensionCompany >>

\* emp with no overtime hours and no custom deductions
WithoutOvertimeAndDeductions(emp) ==
    [emp EXCEPT !.otHoursWeekday = 0, !.otHoursRestDay = 0, !.otHoursHoliday = 0,
                !.customDeductions = << >>]

\* C8: overtime hours and custom deductions never influence the insured tiers or
\* the insurance amounts: every record's tiers and five insurance amounts are
\* those of the same record without overtime and without custom deductions, so
\* two records that differ only in these have the same ones.
C8_OvertimeAndDeductionsNeverInfluenceInsurance ==
    \A i \in EmployeeIndexes :
        InsuranceFields(CalculatedPayroll(appVariant, rulesVariant,
                                          useBaseSalaryForPension,
                                          WithoutOvertimeAndDeductions(employees[i])))
            = InsuranceFields(PayrollOf(employees[i]))

\* a record on the total basis, with overtime pay and a custom deduction
C8_Witness ==
    /\ mounted
    /\ \E i \in EmployeeIndexes :
          /\ ~employees[i].useBaseSalaryForInsurance
          /\ PayrollOf(employees[i]).overtimePay > 0
          /\ PayrollOf(employees[i]).totalCustomDeductions > 0

\* C9: in every payroll computation the pension basis salary equals the insurance
\* basis salary; useBaseSalaryForInsurance controls both.
C9_PensionBasisEqualsInsuranceBasis ==
    \A i \in EmployeeIndexes :
        LET emp == employees[i]
            p == PayrollOf(emp)
            basis == IF emp.useBaseSalaryForInsurance THEN emp.baseSalary
                     ELSE FourFixedComponents(emp) + SumAmounts(emp.customAllowances)
        IN  /\ pensionBasisSalary(appVariant, useBaseSalaryForPension, emp)
                 = insuranceBasisSalary(emp)
            /\ p.pensionCompany = calculatePension(rulesVariant, basis)
            /\ "insuredSalaryPension" \in DOMAIN p =>
                   p.insuredSalaryPension = getPensionInsuredSalary(basis)

\* the primary App has settled a base-only record whose base salary is not its
\* fixed monthly total
C9_Witness ==
    /\ mounted
    /\ appVariant = "primary"
    /\ \E i \in EmployeeIndexes :
          /\ employees[i].useBaseSalaryForInsurance
          /\ employees[i].baseSalary # fixedMonthlyTotal(employees[i])
          /\ PayrollOf(employees[i]).insuredSalaryPension
                 = getPensionInsuredSalary(employees[i].baseSalary)

\* C10: the three stored tiers are the ones the contributions were computed from:
\* laborInsuranceEmp = round(insuredSalary x 0.125 x 0.20), laborInsuranceCo =
\* round(insuredSalary x 0.125 x 0.70), healthInsuranceCo =
\* round(insuredSalaryHealth x 0.0517 x 0.60 x 1.58) and pensionCompany =
\* round(insuredSalaryPension x 0.06), for every record.
C10_StoredTiersAreTheComputedOnes ==
    \A id \in DOMAIN payrolls :
        LET p == payrolls[id]
        IN  /\ p.laborInsuranceEmp = ExactRoundHalfUp(p.insuredSalary, LaborEmployeeRate7)
            /\ p.laborInsuranceCo = ExactRoundHalfUp(p.insuredSalary, LaborEmployerRate7)
            /\ p.healthInsuranceCo
                 = ExactRoundHalfUp(p.insuredSalaryHealth, HealthEmployerRate7)
            /\ "insuredSalaryPension" \in DOMAIN p
            /\ p.pensionCompany = ExactRoundHalfUp(p.insuredSalaryPension, PensionRate7)

----------------------------------------------------------------------------
(* Overtime pay, stated in units of regularSalary / 1440 per half hour.    *)

\* min(h, 2) hours at 4/3 and max(0, h - 2) hours at 5/3 of the hourly rate
PremiumHoursWeight(halfHours) ==
    4 * (IF halfHours < 4 THEN halfHours ELSE 4)
      + 5 * (IF halfHours > 4 THEN halfHours - 4 ELSE 0)

\* nothing for 0 hours, 8 hours flat up to 8 hours, the excess at 4/3 beyond
FlatDayWeight(halfHours) ==
    IF halfHours = 0 THEN 0
    ELSE IF halfHours <= 16 THEN 48
    ELSE 48 + 4 * (halfHours - 16)

CeilingOf(numerator, denominator) == (numerator + denominator - 1) \div denominator

OvertimeCalled == call.fn = "calculateOvertimePay"

\* C11: weekday and rest-day overtime are paid identically, each rate x min(h,2)
\* x 4/3 + rate x max(0,h-2) x 5/3 with rate = regularSalary/240 unrounded, and
\* the result is the ceiling of the sum over the categories; regularSalary 66000
\* with 3 weekday hours and no other hours gives 1192.
C11_WeekdayAndRestDayPaidAlike ==
    OvertimeCalled =>
        /\ call.holidayHours = 0 =>
               result = CeilingOf(call.salary * (PremiumHoursWeight(call.weekdayHours)
                                                + PremiumHoursWeight(call.restDayHours)),
                                  1440)
        /\ result = calculateOvertimePay(call.salary, call.restDayHours,
                                         call.weekdayHours, call.holidayHours)
        /\ (call.salary = 66000 /\ call.weekdayHours = 6 /\ call.restDayHours = 0
              /\ call.holidayHours = 0) => result = 1192

\* C12: positive holiday hours up to 8 contribute rate x 8 whatever the hours,
\* more than 8 contribute rate x 8 + rate x (h-8) x 4/3, zero hours nothing; with
\* regularSalary 66000 and no other hours 8 hours give 2200 and 10 hours 2934.
C12_HolidayFlatDay ==
    OvertimeCalled =>
        /\ (call.weekdayHours = 0 /\ call.restDayHours = 0) =>
               result = CeilingOf(call.salary * FlatDayWeight(call.holidayHours), 1440)
        /\ (0 < call.holidayHours /\ call.holidayHours <= 16) =>
               result = calculateOvertimePay(call.salary, call.weekdayHours,
                                             call.restDayHours, 16)
        /\ (call.salary = 66000 /\ call.weekdayHours = 0 /\ call.restDayHours = 0) =>
               /\ call.holidayHours = 16 => result = 2200
               /\ call.holidayHours = 20 => result = 2934

\* 10 holiday hours alone on a regular salary of 66000
C12_Witness ==
    /\ OvertimeCalled
    /\ call.salary = 66000
    /\ call.weekdayHours = 0 /\ call.restDayHours = 0 /\ call.holidayHours = 20
    /\ result = 2934

\* C13: overtime ceiling law: the unrounded sum rawTotal of the three category
\* contributions satisfies pay - 1 < rawTotal <= pay for every regular salary and
\* every triple of half-hour totals.
C13_OvertimeCeilingLaw ==
    OvertimeCalled =>
        LET rawTotal1440 ==
                call.salary * (PremiumHoursWeight(call.weekdayHours)
                                 + PremiumHoursWeight(call.restDayHours)
                                 + FlatDayWeight(call.holidayHours))
        IN  /\ (result - 1) * 1440 < rawTotal1440
            /\ rawTotal1440 <= result * 1440

\* C14: overtime monotonicity: with the regular salary and the other two
\* categories fixed, more hours in one category never lower the pay.
C14_OvertimeMonotone ==
    OvertimeCalled =>
        /\ \A more \in call.weekdayHours..MaxWeekdayHalfHours :
               result <= calculateOvertimePay(call.salary, more, call.restDayHours,
                                              call.holidayHours)
        /\ \A more \in call.restDayHours..MaxRestDayHalfHours :
               result <= calculateOvertimePay(call.salary, call.weekdayHours, more,
                                              call.holidayHours)
        /\ \A more \in call.holidayHours..MaxHolidayHalfHours :
               result <= calculateOvertimePay(call.salary, call.weekdayHours,
                                              call.restDayHours, more)

\* a call at the 8-hour holiday threshold, below the pay of 8.5 hours
C14_Witness ==
    /\ OvertimeCalled
    /\ call.salary = 66000
    /\ call.weekdayHours = 4
    /\ call.holidayHours = 16
    /\ result < calculateOvertimePay(call.salary, call.weekdayHours,
                                     call.restDayHours, 17)

----------------------------------------------------------------------------
(* Insurance premiums.                                                     *)

HealthInsuranceCalled == call.fn = "calculateHealthInsurance"

\* round(healthTier x 0.0517 x 0.30) for the health tier of the salary
SingleShare(salary) ==
    ExactRoundHalfUp(LookupTier(HEALTH_BRACKETS, salary), 155100)

\* C15: employee health insurance is the single-person share
\* round(healthTier x 0.0517 x 0.30), rounded first, times chargeableCount =
\* 1 + min(dependents, 3), with no second rounding: a multiple, 1 to 4 times, of
\* the rounded single share.
C15_HealthRoundsThenMultiplies ==
    HealthInsuranceCalled =>
        LET chargeableCount ==
                1 + (IF call.dependents < 3 THEN call.dependents ELSE 3)
        IN  /\ result = SingleShare(call.salary) * chargeableCount
            /\ \E times \in 1..4 : result = times * SingleShare(call.salary)

\* the premium of a salary of 66000 with 2 dependents
C15_Witness ==
    /\ HealthInsuranceCalled
    /\ call.salary = 66000
    /\ call.dependents = 2
    /\ result = 3 * SingleShare(66000)

\* C16 as stated: for basisSalary 66000 the health tier is 66800, the single
\* share 1037, employee health insurance 1037 with 0 dependents and 3111 with 2.
C16_HealthScenarioAsStated ==
    (HealthInsuranceCalled /\ call.salary = 66000) =>
        /\ getHealthInsuredSalary(call.salary) = 66800
        /\ call.dependents = 0 => result = 1037
        /\ call.dependents = 2 => result = 3111

\* C16, amended: for basisSalary 66000 the health tier is 66800, the single
\* share round(66800 x 0.0517 x 0.30) = round(1036.068) = 1036, employee health
\* insurance 1036 with 0 dependents and 3108 with 2.
C16_HealthScenario ==
    (HealthInsuranceCalled /\ call.salary = 66000) =>
        /\ getHealthInsuredSalary(call.salary) = 66800
        /\ call.dependents = 0 => result = 1036
        /\ call.dependents = 2 => result = 3108

\* the premium of a salary of 66000 without dependents
C16_Witness ==
    /\ HealthInsuranceCalled
    /\ call.salary = 66000
    /\ call.dependents = 0
    /\ result = 1036

\* C17: health insurance dependent cap: for a fixed basis salary the premium is
\* the same for every dependent count >= 3 (3 and 99 agree) and it is
\* non-decreasing in the dependent count.
C17_DependentCap ==
    HealthInsuranceCalled =>
        /\ call.dependents >= 3 =>
               result = calculateHealthInsurance(call.salary, 3)
        /\ \A more \in DependentCounts :
               more >= call.dependents =>
                   result <= calculateHealthInsurance(call.salary, more)

\* 99 dependents are charged as 3
C17_Witness ==
    /\ HealthInsuranceCalled
    /\ call.salary = 66000
    /\ call.dependents = 99
    /\ result = 4144

\* C18: labor insurance is rounded once at the end: employee side
\* round(laborTier x 0.125 x 0.20), employer side round(laborTier x 0.125 x 0.70),
\* laborTier the labor bracket lookup of the basis salary; for basisSalary 66000
\* the tier is the cap 45800 and the employee amount 1145.
C18_LaborInsuranceRoundedOnce ==
    /\ call.fn = "calculateLaborInsurance" =>
           /\ result = ExactRoundHalfUp(LookupTier(LABOR_BRACKETS, call.salary), 250000)
           /\ call.salary = 66000 =>
                  /\ getLaborInsuredSalary(call.salary) = 45800
                  /\ result = 1145
    /\ call.fn = "calculateLaborInsuranceEmployer" =>
           result = ExactRoundHalfUp(LookupTier(LABOR_BRACKETS, call.salary), 875000)

\* C19: employer health insurance is round(healthTier x 0.0517 x 0.60 x 1.58)
\* and does not depend on the dependent count: a record has the
\* healthInsuranceCo of the same record without dependents.
C19_EmployerHealthIgnoresDependents ==
    \A i \in EmployeeIndexes :
        LET emp == employees[i]
            p == PayrollOf(emp)
        IN  /\ p.healthInsuranceCo =
                   ExactRoundHalfUp(LookupTier(HEALTH_BRACKETS, insuranceBasisSalary(emp)),
                                    490116)
            /\ CalculatedPayroll(appVariant, rulesVariant, useBaseSalaryForPension,
                                 [emp EXCEPT !.dependents = 0]).healthInsuranceCo
                 = p.healthInsuranceCo

\* a record with 2 dependents: the employee pays three shares, the employer's
\* premium is that of the tier
C19_Witness ==
    /\ mounted
    /\ \E i \in EmployeeIndexes :
          /\ employees[i].dependents = 2
          /\ PayrollOf(employees[i]).insuredSalaryHealth = 72800
          /\ PayrollOf(employees[i]).healthInsuranceEmp = 3 * 1129
          /\ PayrollOf(employees[i]).healthInsuranceCo = 3568

\* the lookup function fn of the rules applied to a salary
ApplyLookup(fn, salary) ==
    CASE fn = "getLaborInsuredSalary" -> getLaborInsuredSalary(salary)
      [] fn = "getHealthInsuredSalary" -> getHealthInsuredSalary(salary)
      [] fn = "getPensionInsuredSalary" -> getPensionInsuredSalary(salary)

IsAscending(brackets) ==
    \A i \in 1..(Len(brackets) - 1) : brackets[i] < brackets[i + 1]

\* C20: bracket monotonicity: for each of the three tables and salaries a <= b
\* the tier of a is at most the tier of b; each table is ascending.
C20_BracketMonotone ==
    call.fn \in LookupFunctions =>
        /\ IsAscending(TableOf(call.fn))
        /\ \A other \in BracketValues(TableOf(call.fn))
                          \cup {call.salary + 1, call.salary + SalaryStep} :
               /\ call.salary <= other => result <= ApplyLookup(call.fn, other)
               /\ other <= call.salary => ApplyLookup(call.fn, other) <= result

\* a salary just above the first health tier is on the second tier
C20_Witness ==
    /\ call.fn = "getHealthInsuredSalary"
    /\ call.salary = 28591
    /\ result = 28800
    /\ ApplyLookup(call.fn, 28590) < result

----------------------------------------------------------------------------
(* Claims about the list of employees, the payroll map and the cloud,      *)
(* checked under Spec unless said otherwise.                               *)

DistinctIds(list) ==
    \A i, j \in 1..Len(list) : list[i].id = list[j].id => i = j

\* C21: the payroll map holds exactly one entry per employee record of the
\* list, keyed by the record's id, for every list the App can hold: the
\* initial data, a list from localStorage or from the cloud, and the lists
\* save and delete make of them.
C21_OneEntryPerRecord ==
    /\ Cardinality(DOMAIN payrolls) = Len(employees)
    /\ \A i \in 1..Len(employees) : employees[i].id \in DOMAIN payrolls

\* the totals the export and the dashboard show
TotalledFields ==
    { "grossSalary", "overtimePay", "laborInsuranceEmp", "healthInsuranceEmp",
      "totalDeductions", "netPay", "laborInsuranceCo", "healthInsuranceCo",
      "pensionCompany", "totalCompanyCost" }

RECURSIVE ExportLoop(_, _, _)
\* handleExportExcel: employees.forEach(emp => total += payrolls.get(emp.id)!.field)
ExportLoop(field, from, total) ==
    IF from > Len(employees) THEN total
    ELSE ExportLoop(field, from + 1, total + payrolls[employees[from].id][field])

\* the loop that misses the first record
ExportTotalFromSecond(field) == ExportLoop(field, 2, 0)

ExportTotal(field) == ExportLoop(field, 1, 0)

RECURSIVE ReduceValues(_, _)
\* Array.from(payrolls.values()).reduce((sum, p) => sum + p.field, 0)
ReduceValues(field, ids) ==
    IF ids = {} THEN 0
    ELSE LET id == CHOOSE x \in ids : TRUE
         IN  payrolls[id][field] + ReduceValues(field, ids \ {id})

DashboardTotal(field) == ReduceValues(field, DOMAIN payrolls)

RECURSIVE PlainSum(_, _)
\* the sum of the field over payrolls computed one record at a time
PlainSum(field, alone) ==
    IF alone = << >> THEN 0
    ELSE Head(alone)[field] + PlainSum(field, Tail(alone))

\* C22: for a list with distinct ids, each organisation-wide total (gross,
\* overtime, employee labor and health insurance, total deductions, net pay,
\* employer labor and health insurance, pension, total company cost) is the
\* plain sum of that field over every employee's payroll, and the dashboard
\* and the export show the same totals.
C22_TotalsArePlainSums ==
    DistinctIds(employees) =>
        LET alone == [ i \in 1..Len(employees) |->
                         CalculatedPayroll(appVariant, rulesVariant,
                                           useBaseSalaryForPension, employees[i]) ]
        IN  \A field \in TotalledFields :
                /\ DashboardTotal(field) = PlainSum(field, alone)
                /\ appVariant = "primary" => ExportTotal(field) = DashboardTotal(field)

C22_Witness ==
    /\ appVariant = "primary"
    /\ DistinctIds(employees)
    /\ Len(employees) = 2
    /\ DashboardTotal("netPay") # payrolls[employees[1].id].netPay

\* the payroll of one record, computed with no other record in sight
PayrollAlone(emp) ==
    CalculatedPayroll(appVariant, rulesVariant, useBaseSalaryForPension, emp)

\* C23: an employee's payroll depends on that employee's own record only: a
\* list that contains a record for id X gives X the payroll of that record,
\* whatever other records the list holds and whatever their order.
C23_OwnRecordOnly ==
    \A i \in 1..Len(employees) :
        payrolls[employees[i].id] = PayrollAlone(employees[i])

\* C24: in every state reached by save, delete and cloud load the payroll map
\* is the recomputation from the current list: an entry for every current
\* employee, none for a deleted one, none left over from an earlier list.
C24_PayrollsFresh ==
    /\ DOMAIN payrolls = { employees[i].id : i \in 1..Len(employees) }
    /\ payrolls = ComputePayrolls(appVariant, rulesVariant, useBaseSalaryForPension,
                                  employees)

\* the first employee was deleted and the second one remains
C24_Witness ==
    /\ mounted
    /\ employees = << PartTimer >>
    /\ DOMAIN payrolls = { "2" }

\* C25 (SpecAssistant): neither an upload to the cloud nor a question to the
\* assistant changes the employee list or the payroll map, whatever the
\* outcome; the payroll map moves only with the list, never with isSyncing,
\* syncError or lastSyncTime.
C25_UploadAndAssistantReadOnly ==
    [][ /\ ( \/ inFlight'.save < inFlight.save
             \/ inFlight'.ask # inFlight.ask
             \/ messages' # messages )
           => employees' = employees /\ payrolls' = payrolls
        /\ employees' = employees => payrolls' = payrolls ]_vars

\* an upload has failed and the assistant has answered
C25_Witness ==
    /\ syncError = SaveError
    /\ ~isSyncing
    /\ Len(messages) = 3
    /\ ~isLoading

\* C26 (SpecOvertime): the final amount of the form's detailed overtime
\* breakdown is the amount calculateOvertimePay returns for the same regular
\* salary and hours (the ceiling of the unrounded total).
C26_BreakdownMatchesOvertimePay ==
    call.fn = "DetailedBreakdown" =>
        result = calculateOvertimePay(call.salary, call.weekdayHours,
                                      call.restDayHours, call.holidayHours)

\* C27: for an employee record with non-negative amounts, non-negative
\* overtime hours, dependents >= 0 and no custom deductions, no field of the
\* payroll is negative; in particular netPay >= 0.
C27_NoNegativeField ==
    \A i \in 1..Len(employees) :
        employees[i].customDeductions = << >> =>
            \A field \in DOMAIN PayrollAlone(employees[i]) \ {"employeeId"} :
                PayrollAlone(employees[i])[field] >= 0

IdsOf(list) == { list[i].id : i \in 1..Len(list) }

\* the list with emp put where the record with emp's id was, nothing else moved
ReplacedInPlace(before, after, emp) ==
    /\ Len(after) = Len(before)
    /\ \A i \in 1..Len(before) :
          after[i] = IF before[i].id = emp.id THEN emp ELSE before[i]

\* the list without the records of the id, the others kept in their order
RemovedById(before, after, id) ==
    /\ id \notin IdsOf(after)
    /\ Len(after) = Cardinality({ i \in 1..Len(before) : before[i].id # id })
    /\ \A i \in 1..Len(before) :
          before[i].id # id =>
              after[i - Cardinality({ k \in 1..i : before[k].id = id })] = before[i]

\* what a save of emp must have done to the list
SaveLaw(emp) ==
    /\ DistinctIds(employees')
    /\ IF emp.id \in IdsOf(employees)
       THEN ReplacedInPlace(employees, employees', emp)
       ELSE employees' = employees \o << emp >>

\* what a delete of id must have done to the list and the selection
DeleteLaw(id) ==
    /\ DistinctIds(employees')
    /\ RemovedById(employees, employees', id)
    /\ selectedEmployeeId = id => selectedEmployeeId' = NoSelection
    /\ selectedEmployeeId # id => selectedEmployeeId' = selectedEmployeeId

\* C28: from a list with distinct ids, handleSaveEmployee and handleDelete
\* give a list with distinct ids: saving a record whose id is in the list
\* replaces that record in place, saving a new id appends exactly one record,
\* and deleting an id removes exactly the records with that id and clears the
\* selection if it pointed at them.  (Each line reads "the step is a save of
\* emp => SaveLaw(emp)", written as a disjunction.)
C28_SaveAndDeleteKeepIdsDistinct ==
    [][ DistinctIds(employees) =>
          /\ \A emp \in FormRecords : SaveLaw(emp) \/ ~handleSaveEmployee(emp)
          /\ \A id \in IdsOf(employees) : DeleteLaw(id) \/ ~handleDelete(id) ]_vars

\* a second employee was appended, the first one replaced in place, and the
\* second one is selected
C28_Witness ==
    /\ mounted
    /\ employees = << OfficeWorker, PartTimer >>
    /\ selectedEmployeeId = "2"
    /\ lastSyncTime = NeverSynced

\* what a load that failed must have left behind
FailedLoadLaw ==
    /\ employees' = employees
    /\ payrolls' = payrolls
    /\ syncError' # NoError
    /\ ~isSyncing'

\* the primary App's refusal of a URL that validateUrl rejects
RefusedLoad ==
    /\ appVariant = "primary"
    /\ ~validateUrl(googleSheetScriptUrl)
    /\ ClickLoad

\* C29: a failed cloud load (invalid URL, network error, non-OK response,
\* unparsable body, status other than success) leaves the employee list and
\* the payroll map unchanged, records an error in syncError and ends with
\* isSyncing false; a load replaces the employee list only on a response
\* with status success whose employees field is an array.
C29_FailedLoadHarmless ==
    [][ /\ FailedLoadLaw \/ ~RefusedLoad
        /\ \A kind \in {"load", "overtaken"}, response \in LoadResponses :
              /\ LoadThrows(response) =>
                     FailedLoadLaw \/ ~CompleteLoad(kind, response)
              /\ ~LoadThrows(response) /\ response.employees.type # "array" =>
                     employees' = employees \/ ~CompleteLoad(kind, response) ]_vars

\* C30: a local edit is never lost to an overlapping cloud load: when
\* handleSaveEmployee or handleDelete ran while a syncFromCloud request
\* started earlier was still in flight, the completion of that load leaves
\* the employee list as the edit made it.
C30_LocalEditSurvivesLoad ==
    [][ \A response \in LoadResponses :
            employees' = employees \/ ~CompleteLoad("overtaken", response) ]_vars

====
